---- MODULE Spec2Model ----
(***************************************************************************)
(* Model of weather_forecast.py: the forecast/normals pipeline of main(),  *)
(* the normals aggregation of fetch_normals_doy_map() and the row          *)
(* classification of build_html_table().                                   *)
(*                                                                         *)
(* Units.  Temperatures are integers in tenths of a degree Fahrenheit,     *)
(* station weights are integers in hundredths, and a product weight*value  *)
(* is therefore in thousandths of a degree.  round(x, 1) is modelled on    *)
(* exact rationals n/d (degrees) with ties to even; the binary             *)
(* representation error of Python floats is not modelled.                  *)
(*                                                                         *)
(* A date string 'YYYY-MM-DD' is the sequence of its three fields, year,   *)
(* month and day; the slice t[5:] drops the year.                          *)
(***************************************************************************)
EXTENDS Integers, Sequences, FiniteSets, TLC

VARIABLES
    pc,                  \* position of main()
    city_series,         \* main: city -> list of forecast means
    dates_ref,           \* main: None, or the first station's date list
    weighted,            \* main: list of rounded weighted means
    dod_change,          \* main: list of day-over-day changes
    normals_10_by_city,  \* main: city -> {'MM-DD': normal}
    normals_30_by_city,  \* main: city -> {'MM-DD': normal}
    normal_10yr,         \* main: list of weighted 10y normal cells
    normal_30yr,         \* main: list of weighted 30y normal cells
    csv_file,            \* the flat table on disk: None, or its data rows
    html_file,           \* email_body.html on disk: None, or its rendered rows
    forecast_failed,     \* history: some forecast fetch raised
    normals_failed,      \* history: the <<city, window>> fetches that failed
    arg,                 \* argument of the function under test (unit specs)
    ret                  \* its return value (unit specs)

vars == <<pc, city_series, dates_ref, weighted, dod_change, normals_10_by_city,
          normals_30_by_city, normal_10yr, normal_30yr, csv_file, html_file,
          forecast_failed, normals_failed, arg, ret>>

----------------------------------------------------------------------------
(* Program constants *)

DAYS == 15

\* Threshold for highlighting day-over-day change, 2.0 degrees, in tenths.
DOD_HIGHLIGHT == 20

Cities == <<"Cleveland", "Akron", "Youngstown", "Columbus">>

\* AIRPORTS[city]["weight"], in hundredths.
Weight(city) ==
    CASE city = "Cleveland"  -> 54
      [] city = "Akron"      -> 32
      [] city = "Youngstown" -> 13
      [] city = "Columbus"   -> 1

----------------------------------------------------------------------------
(* Values *)

\* Python None / an absent cell ("" in the lists of main, NaN in the frame).
None == <<>>
Some(x) == <<x>>
Val(o) == o[1]

\* JSON scalars of a response array.
JNull == <<"null">>
JNum(x) == <<"num", x>>
JStr == <<"str">>          \* a string float() cannot convert, e.g. "n/a"

IsJNum(v) == Len(v) = 2

EmptyMap == [md \in {} |-> 0]

\* dict.get(md): None when the key is missing.
MapGet(m, md) == IF md \in DOMAIN m THEN Some(m[md]) ELSE None

\* round(n/d, 1) for the rational n/d (d > 0), in tenths, ties to even.
Round1(n, d) ==
    LET q == (10 * n) \div d
        r == (10 * n) - q * d
    IN  IF 2 * r < d THEN q
        ELSE IF 2 * r > d THEN q + 1
        ELSE IF q % 2 = 0 THEN q ELSE q + 1

\* The ISO date 'YYYY-MM-DD' of year y, month m, day d, as its three fields.
DateStr(y, m, d) == <<y, m, d>>

\* t[5:], the date without its year: 'MM-DD'.
MonthDay(t) == SubSeq(t, 2, Len(t))

----------------------------------------------------------------------------
(* _http_get_json *)

\* A response: what the network did, the HTTP status, and the parsed body.
\*   net    : "ok", "transport_error" or "timeout"
\*   status : the HTTP status code
\*   body   : [valid, has_daily, time, temperature_2m_mean]; valid is whether
\*            the payload parses as JSON; time and temperature_2m_mean are None
\*            (key missing or null) or Some(list).
requests_get_raises(resp) == resp.net # "ok"

\* Mutant: r.raise_for_status() is not called.
raise_for_status_Skipped(resp) == FALSE

raise_for_status(resp) == resp.status >= 400

json_raises(resp) == ~resp.body.valid

_http_get_json_raises(resp) ==
    requests_get_raises(resp) \/ raise_for_status(resp) \/ json_raises(resp)

----------------------------------------------------------------------------
(* fetch_normals_doy_map *)

\* zip(times, vals) stops at the shorter list.
ZipLen(times, vals) == IF Len(times) < Len(vals) THEN Len(times) ELSE Len(vals)

\* The inner try of the loop body: the entry is appended to its bucket unless
\* it is null (skipped) or float(v) raises (except: continue).
Appends(v) == IsJNum(v)

\* buckets[md] after the loop over entries 1..n, as a list in arrival order.
RECURSIVE Bucket(_, _, _, _)
Bucket(times, vals, md, n) ==
    IF n = 0 THEN <<>>
    ELSE LET rest == Bucket(times, vals, md, n - 1)
         IN  IF MonthDay(times[n]) = md /\ Appends(vals[n])
             THEN Append(rest, vals[n][2])
             ELSE rest

RECURSIVE SumSeq(_)
SumSeq(s) == IF s = <<>> THEN 0 ELSE s[1] + SumSeq(Tail(s))

\* Mutant: a null counts in the divisor of its month-day.
BucketMeans_CountsNulls(times, vals) ==
    LET n   == ZipLen(times, vals)
        mds == { MonthDay(times[i]) : i \in 1..n }
        keys == { md \in mds : Bucket(times, vals, md, n) # <<>> }
    IN  [ md \in keys |->
            Round1(SumSeq(Bucket(times, vals, md, n)),
                   10 * Cardinality({ i \in 1..n : MonthDay(times[i]) = md })) ]

\* {md: round(sum(arr) / len(arr), 1) for md, arr in buckets.items() if arr}
BucketMeans(times, vals) ==
    LET n   == ZipLen(times, vals)
        mds == { MonthDay(times[i]) : i \in 1..n }
        keys == { md \in mds : Bucket(times, vals, md, n) # <<>> }
    IN  [ md \in keys |->
            LET arr == Bucket(times, vals, md, n)
            IN  Round1(SumSeq(arr), 10 * Len(arr)) ]

\* Mutant: the length comparison is left out, zip() truncates silently.
Unusable_NoLengthCheck(times, vals) ==
    \/ times = None \/ vals = None
    \/ Val(times) = <<>> \/ Val(vals) = <<>>

\* `if not times or not vals or len(times) != len(vals): return {}`
Unusable(times, vals) ==
    \/ times = None \/ vals = None
    \/ Val(times) = <<>> \/ Val(vals) = <<>>
    \/ Len(Val(times)) # Len(Val(vals))

\* Mutant: the loop has no inner try, so a value float() rejects reaches the
\* outer except and empties the whole mapping.
fetch_normals_doy_map_NoInnerTry(resp) ==
    IF _http_get_json_raises(resp) THEN EmptyMap
    ELSE LET times == IF resp.body.has_daily THEN resp.body.time ELSE None
             vals  == IF resp.body.has_daily
                      THEN resp.body.temperature_2m_mean ELSE None
         IN  IF Unusable(times, vals) THEN EmptyMap
             ELSE IF \E i \in 1..Len(Val(vals)) : Val(vals)[i] = JStr THEN EmptyMap
             ELSE BucketMeans(Val(times), Val(vals))

fetch_normals_doy_map(resp) ==
    IF _http_get_json_raises(resp) THEN EmptyMap            \* except Exception
    ELSE LET times == IF resp.body.has_daily THEN resp.body.time ELSE None
             vals  == IF resp.body.has_daily
                      THEN resp.body.temperature_2m_mean ELSE None
         IN  IF Unusable(times, vals) THEN EmptyMap
             ELSE BucketMeans(Val(times), Val(vals))

----------------------------------------------------------------------------
(* Unit specification of fetch_normals_doy_map: the response is drawn from *)
(* a bounded set, one action calls the function on it.                     *)

\* Longest date/value array of a drawn climate response.
MaxObs == 3

SeqsUpTo(S, n) == UNION { [1..k -> S] : k \in 0..n }

SampleTimes == { DateStr(2016, 2, 29), DateStr(2020, 2, 29), DateStr(2020, 3, 1) }

SampleVals == { JNull, JNum(311), JNum(-4), JStr }

Body(valid, has_daily, time, temps) ==
    [valid |-> valid, has_daily |-> has_daily, time |-> time,
     temperature_2m_mean |-> temps]

Response(net, status, body) == [net |-> net, status |-> status, body |-> body]

OkResponse(time, temps) == Response("ok", 200, Body(TRUE, TRUE, time, temps))

\* The ways _http_get_json raises: no connection, a timeout, a non-success
\* status (whatever payload comes with it), a payload that is not JSON.
HttpFailures(time, temps) ==
    { Response("transport_error", 0, Body(FALSE, FALSE, None, None)),
      Response("timeout", 0, Body(FALSE, FALSE, None, None)),
      Response("ok", 500, Body(TRUE, TRUE, time, temps)),
      Response("ok", 404, Body(TRUE, FALSE, None, None)),
      Response("ok", 200, Body(FALSE, FALSE, None, None)) }

\* A JSON payload without the daily section.
NoDaily == Response("ok", 200, Body(TRUE, FALSE, None, None))

\* JSON payloads with a section missing.
MalformedBodies(time, temps) ==
    { NoDaily,
      Response("ok", 200, Body(TRUE, TRUE, None, temps)),
      Response("ok", 200, Body(TRUE, TRUE, time, None)) }

ClimateInputs ==
    LET T == { None } \cup { Some(t) : t \in SeqsUpTo(SampleTimes, MaxObs) }
        V == { None } \cup { Some(v) : v \in SeqsUpTo(SampleVals, MaxObs) }
    IN  { OkResponse(t, v) : t \in T, v \in V }
        \cup HttpFailures(Some(<<DateStr(2016, 2, 29)>>), Some(<<JNum(311)>>))
        \cup MalformedBodies(Some(<<DateStr(2016, 2, 29)>>), Some(<<JNum(311)>>))

MainIdle ==
    /\ city_series = <<>> /\ dates_ref = None /\ weighted = <<>>
    /\ dod_change = <<>> /\ normals_10_by_city = <<>> /\ normals_30_by_city = <<>>
    /\ normal_10yr = <<>> /\ normal_30yr = <<>> /\ csv_file = None
    /\ html_file = None /\ forecast_failed = FALSE /\ normals_failed = {}

InitNormals ==
    /\ MainIdle
    /\ pc = "normals_call"
    /\ arg \in ClimateInputs
    /\ ret = None

CallFetchNormals ==
    /\ pc = "normals_call"
    /\ ret' = fetch_normals_doy_map(arg)
    /\ pc' = "normals_ret"
    /\ UNCHANGED <<city_series, dates_ref, weighted, dod_change,
                   normals_10_by_city, normals_30_by_city, normal_10yr,
                   normal_30yr, csv_file, html_file, forecast_failed,
                   normals_failed, arg>>

NextNormals == CallFetchNormals

SpecNormals == InitNormals /\ [][NextNormals]_vars

----------------------------------------------------------------------------
(* Claims about fetch_normals_doy_map, checked under SpecNormals *)

\* The call returned for a successful response with usable, equal-length arrays.
Aggregated ==
    /\ pc = "normals_ret"
    /\ ~_http_get_json_raises(arg)
    /\ arg.body.has_daily
    /\ ~Unusable(arg.body.time, arg.body.temperature_2m_mean)

ArgTimes == Val(arg.body.time)
ArgVals == Val(arg.body.temperature_2m_mean)

HasNonNumeric == \E i \in 1..Len(ArgVals) : ArgVals[i] = JStr

NonNull(v) == v # JNull
Numeric(v) == v # JNull /\ v # JStr

\* Indices of the observations of month-day md: all, non-null, numeric.
Obs(md) == { i \in 1..Len(ArgTimes) : MonthDay(ArgTimes[i]) = md }
ObsNonNull(md) == { i \in Obs(md) : NonNull(ArgVals[i]) }
ObsNumeric(md) == { i \in Obs(md) : Numeric(ArgVals[i]) }

RECURSIVE SumAt(_)
SumAt(S) == IF S = {} THEN 0
            ELSE LET i == CHOOSE j \in S : TRUE
                 IN  ArgVals[i][2] + SumAt(S \ {i})

AllMonthDays == { MonthDay(t) : t \in SampleTimes }

\* C9: given equal-length date and value arrays (values numbers or null), the
\* returned mapping has a month-day as key exactly when that month-day has a
\* non-null value, and maps it to the mean of exactly its non-null values
\* rounded to one decimal: nulls count neither in the sum nor in the count.
C9_Aggregation ==
    (Aggregated /\ ~HasNonNumeric) =>
        \A md \in AllMonthDays :
            LET S == ObsNonNull(md)
            IN  /\ (md \in DOMAIN ret) <=> (S # {})
                /\ S # {} => ret[md] = Round1(SumAt(S), 10 * Cardinality(S))

\* "02-29" observed in two years plus one null entry for it.
C9_Witness ==
    /\ Aggregated /\ ~HasNonNumeric
    /\ LET md == MonthDay(DateStr(2016, 2, 29))
       IN  /\ Cardinality(ObsNonNull(md)) = 2
           /\ Cardinality(Obs(md) \ ObsNonNull(md)) = 1
           /\ md \in DOMAIN ret

\* C4 as stated: a non-numeric value anywhere in the response empties the
\* whole mapping of that station and window.
C4_Original == (Aggregated /\ HasNonNumeric) => ret = EmptyMap

\* C4 as amended: a non-numeric value drops only its own entry, as a null
\* would be; every month-day with a numeric value stays a key, mapped to the
\* rounded mean of its numeric values, and the mapping is empty only when no
\* entry of the response is numeric.
C4_OnlyEntryDropped ==
    (Aggregated /\ HasNonNumeric) =>
        /\ \A md \in AllMonthDays :
              LET S == ObsNumeric(md)
              IN  /\ (md \in DOMAIN ret) <=> (S # {})
                  /\ S # {} => ret[md] = Round1(SumAt(S), 10 * Cardinality(S))
        /\ (ret = EmptyMap) <=> (\A i \in 1..Len(ArgVals) : ~Numeric(ArgVals[i]))

\* A response with a non-numeric entry and a numeric one for the same
\* month-day, and a non-empty mapping returned.
C4_Witness ==
    /\ Aggregated /\ HasNonNumeric
    /\ \E i, j \in 1..Len(ArgVals) :
          /\ ArgVals[i] = JStr /\ Numeric(ArgVals[j])
          /\ MonthDay(ArgTimes[i]) = MonthDay(ArgTimes[j])
    /\ ret # EmptyMap

----------------------------------------------------------------------------
(* build_html_table *)

Abs(n) == IF n < 0 THEN -n ELSE n

\* f"{val:.1f}" of a float: sign, integer part, one decimal digit.
Fmt1(n) == << IF n < 0 THEN "-" ELSE "", Abs(n) \div 10, Abs(n) % 10 >>

\* fmt(val): "" for a NaN cell, else the float with one decimal.
fmt(cell) == IF cell = None THEN "" ELSE Fmt1(Val(cell))

\* Mutant: the threshold comparisons are strict.
HtmlRow_Strict(r) ==
    LET dod == r.day_over_day_change_f
        val == Val(dod)
    IN  [ tr_class |-> IF dod = None THEN ""
                       ELSE IF val > DOD_HIGHLIGHT THEN "warm"
                       ELSE IF val < -DOD_HIGHLIGHT THEN "cool" ELSE "",
          date     |-> r.date,
          weighted_avg_f |-> fmt(r.weighted_avg_f),
          dod_class |-> <<"dod", IF dod = None THEN "zero"
                                 ELSE IF val > 0 THEN "pos"
                                 ELSE IF val < 0 THEN "neg" ELSE "zero">>,
          dod_txt  |-> IF dod = None THEN ""
                       ELSE << IF val > 0 THEN "+" ELSE IF val = 0 THEN "" ELSE "ndash",
                               Abs(val) \div 10, Abs(val) % 10 >>,
          normal_10yr_f |-> fmt(r.normal_10yr_f),
          normal_30yr_f |-> fmt(r.normal_30yr_f) ]

\* The <tr> built by one iteration of `for _, r in df.iterrows()`.
HtmlRow(r) ==
    LET dod == r.day_over_day_change_f
        val == Val(dod)
        cls == IF dod = None THEN ""
               ELSE IF val >= DOD_HIGHLIGHT THEN "warm"
               ELSE IF val <= -DOD_HIGHLIGHT THEN "cool"
               ELSE ""
        \* an en dash, not a hyphen, marks a negative change
        sign == IF val > 0 THEN "+" ELSE IF val = 0 THEN "" ELSE "ndash"
        sign_cls == IF dod = None THEN "zero"
                    ELSE IF val > 0 THEN "pos"
                    ELSE IF val < 0 THEN "neg" ELSE "zero"
        dod_txt == IF dod = None THEN ""
                   ELSE << sign, Abs(val) \div 10, Abs(val) % 10 >>
    IN  [ tr_class |-> cls,
          date     |-> r.date,
          weighted_avg_f |-> fmt(r.weighted_avg_f),
          dod_class |-> <<"dod", sign_cls>>,
          dod_txt  |-> dod_txt,
          normal_10yr_f |-> fmt(r.normal_10yr_f),
          normal_30yr_f |-> fmt(r.normal_30yr_f) ]

build_html_table(df) == [ i \in 1..Len(df) |-> HtmlRow(df[i]) ]

----------------------------------------------------------------------------
(* Unit specification of build_html_table: the frame is drawn from a       *)
(* bounded set, one action renders it.                                     *)

\* Most rows of a drawn frame.
MaxRows == 2

\* Largest day-over-day change of a drawn frame, in tenths of a degree.
MaxChange == 22

FrameRow(dod) ==
    [ date |-> DateStr(2025, 7, 4), weighted_avg_f |-> Some(715),
      day_over_day_change_f |-> dod,
      normal_10yr_f |-> None, normal_30yr_f |-> Some(-12) ]

FrameRows == { FrameRow(None) } \cup { FrameRow(Some(c)) : c \in -MaxChange..MaxChange }

Frames == UNION { [1..k -> FrameRows] : k \in 1..MaxRows }

InitHtml ==
    /\ MainIdle
    /\ pc = "html_call"
    /\ arg \in Frames
    /\ ret = None

CallBuildHtmlTable ==
    /\ pc = "html_call"
    /\ ret' = build_html_table(arg)
    /\ pc' = "html_ret"
    /\ UNCHANGED <<city_series, dates_ref, weighted, dod_change,
                   normals_10_by_city, normals_30_by_city, normal_10yr,
                   normal_30yr, csv_file, html_file, forecast_failed,
                   normals_failed, arg>>

NextHtml == CallBuildHtmlTable

SpecHtml == InitHtml /\ [][NextHtml]_vars

\* C8: every rendered row is classed warming iff its change is >= +2.0,
\* cooling iff its change is <= -2.0 and carries no highlight otherwise
\* (+1.9 and -1.9 are neutral); a row with an absent change has no highlight,
\* an empty change cell and the neutral sign style; the sign style of the
\* change cell follows the sign of the change alone.
C8_Highlight ==
    pc = "html_ret" =>
        /\ Len(ret) = Len(arg)
        /\ \A i \in 1..Len(arg) :
              LET dod == arg[i].day_over_day_change_f
                  row == ret[i]
              IN  IF dod = None
                  THEN /\ row.tr_class = ""
                       /\ row.dod_txt = ""
                       /\ row.dod_class = <<"dod", "zero">>
                  ELSE /\ (row.tr_class = "warm") <=> (dod[1] >= 20)
                       /\ (row.tr_class = "cool") <=> (dod[1] <= -20)
                       /\ (row.tr_class = "") <=> (dod[1] <= 19 /\ dod[1] >= -19)
                       /\ (row.dod_class = <<"dod", "pos">>) <=> (dod[1] > 0)
                       /\ (row.dod_class = <<"dod", "neg">>) <=> (dod[1] < 0)
                       /\ (row.dod_class = <<"dod", "zero">>) <=> (dod[1] = 0)
                       /\ row.dod_txt # ""

\* A rendered frame with a row at exactly +2.0 (warming) next to a row at
\* exactly -1.9 (neutral, negative sign style).
C8_Witness ==
    /\ pc = "html_ret"
    /\ \E i, j \in 1..Len(arg) :
          /\ arg[i].day_over_day_change_f = Some(20)
          /\ ret[i].tr_class = "warm"
          /\ arg[j].day_over_day_change_f = Some(-19)
          /\ ret[j].tr_class = ""
          /\ ret[j].dod_class = <<"dod", "neg">>

----------------------------------------------------------------------------
(* fetch_mean_temps *)

\* _http_get_json raised, or j["daily"] is a KeyError.
fetch_mean_temps_raises(resp) ==
    _http_get_json_raises(resp) \/ ~resp.body.has_daily

\* return j["daily"]["time"], j["daily"]["temperature_2m_mean"]
fetch_mean_temps(resp) ==
    << Val(resp.body.time), Val(resp.body.temperature_2m_mean) >>

----------------------------------------------------------------------------
(* main *)

NumCities == Len(Cities)

CityIndex(city) == CHOOSE k \in 1..NumCities : Cities[k] = city

\* dict insertion: m[key] = value
MapPut(m, key, value) ==
    [ x \in DOMAIN m \cup {key} |-> IF x = key THEN value ELSE m[x] ]

CitySet == { Cities[k] : k \in 1..NumCities }

RECURSIVE SumOverCities(_, _)
\* sum(f[city] for city in the first k AIRPORTS)
SumOverCities(f, k) ==
    IF k = 0 THEN 0 ELSE SumOverCities(f, k - 1) + f[Cities[k]]

\* Step 2 raises: a series shorter than DAYS (IndexError) or a null mean
\* (TypeError on None * weight).
WeightedRaises(series) ==
    \E k \in 1..NumCities, i \in 1..DAYS :
        \/ i > Len(series[Cities[k]])
        \/ ~IsJNum(series[Cities[k]][i])

\* weighted[i] = round(sum(city_series[city][i] * weight), 1)
WeightedAt(series, i) ==
    LET term == [ city \in CitySet |-> series[city][i][2] * Weight(city) ]
    IN  Round1(SumOverCities(term, NumCities), 1000)

\* Mutant: the first change is 0.0 instead of absent.
DodChange_FirstZero(w) ==
    [ i \in 1..DAYS |-> IF i = 1 THEN Some(0)
                        ELSE Some(Round1(w[i] - w[i - 1], 10)) ]

\* Step 3: dod_change = [""] + [round(weighted[i] - weighted[i-1], 1)]
DodChange(w) ==
    [ i \in 1..DAYS |-> IF i = 1 THEN None
                        ELSE Some(Round1(w[i] - w[i - 1], 10)) ]

\* Mutant: `if val`, which a normal of 0.0 fails.
Contributes_Truthy(by_city, city, md) ==
    /\ city \in DOMAIN by_city
    /\ MapGet(by_city[city], md) # None
    /\ by_city[city][md] # 0

\* `if val is not None`
Contributes(by_city, city, md) ==
    city \in DOMAIN by_city /\ MapGet(by_city[city], md) # None

\* One window of the loop body of step 4b for month-day md:
\* round(total, 1) if wsum > 0 else ""
WeightedNormal(by_city, md) ==
    LET term  == [ city \in CitySet |->
                       IF Contributes(by_city, city, md)
                       THEN by_city[city][md] * Weight(city) ELSE 0 ]
        w     == [ city \in CitySet |->
                       IF Contributes(by_city, city, md) THEN Weight(city) ELSE 0 ]
        total == SumOverCities(term, NumCities)
        wsum  == SumOverCities(w, NumCities)
    IN  IF wsum > 0 THEN Some(Round1(total, 1000)) ELSE None

WeightedNormals(by_city, dates) ==
    [ i \in 1..Len(dates) |-> WeightedNormal(by_city, MonthDay(dates[i])) ]

\* str(x) as csv.writer writes a cell: "" stays "", a float rounded to one
\* decimal is written with that decimal.
CsvCell(cell) == IF cell = None THEN "" ELSE Fmt1(Val(cell))

\* pd.read_csv of a numeric cell: an empty field is NaN.
ParseCell(text) ==
    IF text = "" THEN None
    ELSE Some((IF text[1] = "-" THEN -1 ELSE 1) * (10 * text[2] + text[3]))

\* w.writerow([dates_ref[i], weighted[i], dod_change[i], normal_10yr[i], normal_30yr[i]])
CsvRow(dates, w, dod, n10, n30, i) ==
    [ date |-> dates[i], weighted_avg_f |-> CsvCell(Some(w[i])),
      day_over_day_change_f |-> CsvCell(dod[i]),
      normal_10yr_f |-> CsvCell(n10[i]), normal_30yr_f |-> CsvCell(n30[i]) ]

\* df = pd.read_csv(out_path)
read_csv(file) ==
    [ i \in 1..Len(file.rows) |->
        [ date |-> file.rows[i].date,
          weighted_avg_f |-> ParseCell(file.rows[i].weighted_avg_f),
          day_over_day_change_f |-> ParseCell(file.rows[i].day_over_day_change_f),
          normal_10yr_f |-> ParseCell(file.rows[i].normal_10yr_f),
          normal_30yr_f |-> ParseCell(file.rows[i].normal_30yr_f) ] ]

----------------------------------------------------------------------------
(* Inputs of main: what the two endpoints may answer *)

\* Averaging windows (start_year, end_year).
NORMALS_30Y == <<1991, 2020>>
NORMALS_10Y == <<2015, 2024>>

\* Forecast series drawn per station.
NumShapes == 2

\* The i-th day of the forecast calendar, starting 28 June: month and day.
CalMonth(i) == IF i <= 3 THEN 6 ELSE 7
CalDay(i) == IF i <= 3 THEN 27 + i ELSE i - 3

ForecastDates(n) == [ i \in 1..n |-> DateStr(2025, CalMonth(i), CalDay(i)) ]

\* Mean temperature of a station on day i in forecast shape p, in tenths.
ForecastTemp(city, p, i) ==
    650 + 10 * CityIndex(city) + 9 * ((i * (p + CityIndex(city))) % 7)
        + 4 * p * (i % 3)

\* A station's list of n means; with hole, one day of it is null.
ForecastMeans(city, p, n, hole) ==
    [ i \in 1..n |-> IF hole /\ i = CityIndex(city) + 1 THEN JNull
                     ELSE JNum(ForecastTemp(city, p, i)) ]

ForecastFailures(city) ==
    HttpFailures(Some(ForecastDates(DAYS)),
                 Some(ForecastMeans(city, 1, DAYS, FALSE)))
    \cup { NoDaily }

\* Answers of the forecast endpoint whose date and value arrays are parallel
\* (the same length), as the endpoint documents them.
ForecastInputs(city) ==
    ForecastFailures(city) \cup
    { OkResponse(Some(ForecastDates(n)), Some(ForecastMeans(city, p, n, hole))) :
        p \in 1..NumShapes, n \in {DAYS - 1, DAYS}, hole \in BOOLEAN }

\* Answers whose date list and value list have any lengths.
ForecastInputsAnyLengths(city) ==
    ForecastFailures(city) \cup
    { OkResponse(Some(ForecastDates(m)), Some(ForecastMeans(city, p, n, hole))) :
        p \in 1..NumShapes, m \in {0, DAYS - 1, DAYS, DAYS + 1},
        n \in {DAYS - 1, DAYS}, hole \in BOOLEAN }

Years(window) == IF window = "10y" THEN NORMALS_10Y ELSE NORMALS_30Y

\* Days of the calendar for which a station has no climate data at all.
ClimateGap(city, i) ==
    \/ city = "Cleveland" /\ i = 2
    \/ city = "Akron" /\ i \in {2, 5}
    \/ city = "Youngstown" /\ i = 5

\* The climate value of a station for calendar day i in the y-th year of the
\* window: null in a gap, null in the first year of day 9, 0.0 in Columbus on
\* day 7.
ClimateVal(city, window, y, i) ==
    IF ClimateGap(city, i) \/ (y = 1 /\ i = 9) THEN JNull
    ELSE IF city = "Columbus" /\ i = 7 THEN JNum(0)
    ELSE JNum(600 + 8 * CityIndex(city) + 2 * i + 6 * y
              + (IF window = "10y" THEN 12 ELSE 0))

\* The successful answer of the climate endpoint for a station and window:
\* the first and the last year of the window, DAYS + 1 calendar days each.
ClimateTimes(window) ==
    [ j \in 1..(2 * (DAYS + 1)) |->
        LET y == IF j <= DAYS + 1 THEN 1 ELSE 2
            i == IF j <= DAYS + 1 THEN j ELSE j - (DAYS + 1)
        IN  DateStr(Years(window)[y], CalMonth(i), CalDay(i)) ]

ClimateTemps(city, window) ==
    [ j \in 1..(2 * (DAYS + 1)) |->
        LET y == IF j <= DAYS + 1 THEN 1 ELSE 2
            i == IF j <= DAYS + 1 THEN j ELSE j - (DAYS + 1)
        IN  ClimateVal(city, window, y, i) ]

ClimateOk(city, window) ==
    OkResponse(Some(ClimateTimes(window)), Some(ClimateTemps(city, window)))

\* The failing answers: an HTTP-layer failure, a missing section, or date and
\* value arrays of different lengths.
ClimateFailures(city, window) ==
    LET t == Some(ClimateTimes(window))
        v == Some(ClimateTemps(city, window))
    IN  HttpFailures(t, v) \cup MalformedBodies(t, v)
        \cup { OkResponse(t, Some(Tail(Val(v)))) }

----------------------------------------------------------------------------
(* The run of main(), one action per step *)

Init ==
    /\ pc = "forecast"
    /\ city_series = <<>>
    /\ dates_ref = None
    /\ weighted = <<>>
    /\ dod_change = <<>>
    /\ normals_10_by_city = <<>>
    /\ normals_30_by_city = <<>>
    /\ normal_10yr = <<>>
    /\ normal_30yr = <<>>
    /\ csv_file = None
    /\ html_file = None
    /\ forecast_failed = FALSE
    /\ normals_failed = {}
    /\ arg = None
    /\ ret = None

NumFetched(by_city) == Cardinality(DOMAIN by_city)

\* 1) one iteration of the forecast loop: an exception ends the run.
FetchForecast(Inputs) ==
    /\ pc = "forecast"
    /\ LET city == Cities[NumFetched(city_series) + 1]
       IN  \E resp \in Inputs[city] :
             /\ forecast_failed' = (forecast_failed \/ resp \in ForecastFailures(city))
             /\ IF fetch_mean_temps_raises(resp)
                THEN /\ pc' = "aborted"
                     /\ UNCHANGED <<city_series, dates_ref>>
                ELSE LET got == fetch_mean_temps(resp)
                     IN  /\ city_series' = MapPut(city_series, city, got[2])
                         /\ dates_ref' = IF dates_ref = None THEN Some(got[1])
                                         ELSE dates_ref
                         /\ pc' = IF NumFetched(city_series) + 1 = NumCities
                                  THEN "weighted" ELSE "forecast"
    /\ UNCHANGED <<weighted, dod_change, normals_10_by_city, normals_30_by_city,
                   normal_10yr, normal_30yr, csv_file, html_file,
                   normals_failed, arg, ret>>

\* 2) the weighted forecast: an IndexError or TypeError ends the run.
ComputeWeighted ==
    /\ pc = "weighted"
    /\ IF WeightedRaises(city_series)
       THEN /\ pc' = "aborted"
            /\ UNCHANGED weighted
       ELSE /\ weighted' = [ i \in 1..DAYS |-> WeightedAt(city_series, i) ]
            /\ pc' = "dod"
    /\ UNCHANGED <<city_series, dates_ref, dod_change, normals_10_by_city,
                   normals_30_by_city, normal_10yr, normal_30yr, csv_file,
                   html_file, forecast_failed, normals_failed, arg, ret>>

\* 3) day-over-day change.
ComputeDodChange ==
    /\ pc = "dod"
    /\ dod_change' = DodChange(weighted)
    /\ pc' = "normals"
    /\ UNCHANGED <<city_series, dates_ref, weighted, normals_10_by_city,
                   normals_30_by_city, normal_10yr, normal_30yr, csv_file,
                   html_file, forecast_failed, normals_failed, arg, ret>>

\* What a call of fetch_normals_doy_map can yield for a station and window:
\* for every answer of the endpoint, whether it is a failing answer and the
\* mapping the function returns for it.
ClimateDraws ==
    [ c \in CitySet, w \in {"10y", "30y"} |->
        { [ failed |-> resp \in ClimateFailures(c, w),
            result |-> fetch_normals_doy_map(resp) ] :
            resp \in ClimateFailures(c, w) \cup {ClimateOk(c, w)} } ]

\* 4) the 10-year fetch of one iteration of the normals loop.
FetchNormals10 ==
    /\ pc = "normals"
    /\ NumFetched(normals_10_by_city) = NumFetched(normals_30_by_city)
    /\ LET city == Cities[NumFetched(normals_10_by_city) + 1]
       IN  \E d \in ClimateDraws[city, "10y"] :
             /\ normals_10_by_city' =
                    MapPut(normals_10_by_city, city, d.result)
             /\ normals_failed' =
                    IF d.failed
                    THEN normals_failed \cup {<<city, "10y">>} ELSE normals_failed
    /\ UNCHANGED <<pc, city_series, dates_ref, weighted, dod_change,
                   normals_30_by_city, normal_10yr, normal_30yr, csv_file,
                   html_file, forecast_failed, arg, ret>>

\* 4) the 30-year fetch of the same iteration.
FetchNormals30 ==
    /\ pc = "normals"
    /\ NumFetched(normals_10_by_city) > NumFetched(normals_30_by_city)
    /\ LET city == Cities[NumFetched(normals_30_by_city) + 1]
       IN  \E d \in ClimateDraws[city, "30y"] :
             /\ normals_30_by_city' =
                    MapPut(normals_30_by_city, city, d.result)
             /\ normals_failed' =
                    IF d.failed
                    THEN normals_failed \cup {<<city, "30y">>} ELSE normals_failed
             /\ pc' = IF NumFetched(normals_30_by_city) + 1 = NumCities
                      THEN "wnormals" ELSE "normals"
    /\ UNCHANGED <<city_series, dates_ref, weighted, dod_change,
                   normals_10_by_city, normal_10yr, normal_30yr, csv_file,
                   html_file, forecast_failed, arg, ret>>

\* 4) the weighted normals of every forecast date.
ComputeNormals ==
    /\ pc = "wnormals"
    /\ normal_10yr' = WeightedNormals(normals_10_by_city, Val(dates_ref))
    /\ normal_30yr' = WeightedNormals(normals_30_by_city, Val(dates_ref))
    /\ pc' = "csv"
    /\ UNCHANGED <<city_series, dates_ref, weighted, dod_change,
                   normals_10_by_city, normals_30_by_city, csv_file, html_file,
                   forecast_failed, normals_failed, arg, ret>>

\* 5) the flat table.  dates_ref[0] of an empty list raises before the file
\* is opened; dates_ref[i] past the end of the list raises inside the `with`
\* block, which closes the file with the rows written so far.
WriteCsv ==
    /\ pc = "csv"
    /\ LET dates == Val(dates_ref)
           n == IF Len(dates) < DAYS THEN Len(dates) ELSE DAYS
       IN  IF Len(dates) = 0
           THEN /\ pc' = "aborted"
                /\ UNCHANGED csv_file
           ELSE /\ csv_file' = Some([ first_date |-> dates[1],
                                      rows |-> [ i \in 1..n |->
                                          CsvRow(dates, weighted, dod_change,
                                                 normal_10yr, normal_30yr, i) ] ])
                /\ pc' = IF Len(dates) < DAYS THEN "aborted" ELSE "html"
    /\ UNCHANGED <<city_series, dates_ref, weighted, dod_change,
                   normals_10_by_city, normals_30_by_city, normal_10yr,
                   normal_30yr, html_file, forecast_failed, normals_failed,
                   arg, ret>>

\* 6) the markup document, built from the flat table read back.
WriteHtml ==
    /\ pc = "html"
    /\ html_file' = Some(build_html_table(read_csv(Val(csv_file))))
    /\ pc' = "done"
    /\ UNCHANGED <<city_series, dates_ref, weighted, dod_change,
                   normals_10_by_city, normals_30_by_city, normal_10yr,
                   normal_30yr, csv_file, forecast_failed, normals_failed,
                   arg, ret>>

FetchForecastParallel ==
    FetchForecast([ city \in CitySet |-> ForecastInputs(city) ])

FetchForecastAnyLengths ==
    FetchForecast([ city \in CitySet |-> ForecastInputsAnyLengths(city) ])

Next ==
    \/ FetchForecastParallel
    \/ ComputeWeighted
    \/ ComputeDodChange
    \/ FetchNormals10
    \/ FetchNormals30
    \/ ComputeNormals
    \/ WriteCsv
    \/ WriteHtml

\* The run on answers of the documented shape.
Spec == Init /\ [][Next]_vars

NextAnyLengths ==
    \/ FetchForecastAnyLengths
    \/ ComputeWeighted
    \/ ComputeDodChange
    \/ FetchNormals10
    \/ FetchNormals30
    \/ ComputeNormals
    \/ WriteCsv
    \/ WriteHtml

\* The run on forecast answers whose date and value lists have any lengths.
SpecAnyLengths == Init /\ [][NextAnyLengths]_vars

----------------------------------------------------------------------------
(* Claims about main, checked under Spec unless said otherwise *)

Terminated == pc \in {"done", "aborted"}

ByCity(window) == IF window = "10y" THEN normals_10_by_city ELSE normals_30_by_city

NormalList(window) == IF window = "10y" THEN normal_10yr ELSE normal_30yr

Windows == {"10y", "30y"}

\* The stations whose normals map of the window has the month-day.
Contributing(window, md) ==
    { c \in DOMAIN ByCity(window) : md \in DOMAIN ByCity(window)[c] }

RECURSIVE WeightSum(_)
WeightSum(S) == IF S = {} THEN 0
                ELSE LET c == CHOOSE x \in S : TRUE
                     IN  Weight(c) + WeightSum(S \ {c})

RECURSIVE WeightedSum(_, _, _)
WeightedSum(window, md, S) ==
    IF S = {} THEN 0
    ELSE LET c == CHOOSE x \in S : TRUE
         IN  Weight(c) * ByCity(window)[c][md] + WeightedSum(window, md, S \ {c})

\* C1: for every forecast date and window with at least one contributing
\* station, the combined normal is the weighted sum over the contributing
\* stations divided by the sum of the weights of those stations only, rounded
\* to one decimal.
C1_Renormalized ==
    \A window \in Windows : \A i \in 1..Len(NormalList(window)) :
        LET md == MonthDay(Val(dates_ref)[i])
            S  == Contributing(window, md)
        IN  S # {} =>
              NormalList(window)[i] =
                  Some(Round1(WeightedSum(window, md, S), 10 * WeightSum(S)))

\* C2: once a forecast fetch has failed the run is aborted and neither output
\* file exists; an output file exists only after the forecast fetches of all
\* stations have succeeded.
C2_FatalForecast ==
    /\ forecast_failed =>
          pc = "aborted" /\ csv_file = None /\ html_file = None
    /\ (csv_file # None \/ html_file # None) =>
          ~forecast_failed /\ DOMAIN city_series = CitySet

\* The third station's fetch failed after two stations were fetched.
C2_Witness ==
    /\ forecast_failed /\ pc = "aborted"
    /\ NumFetched(city_series) = 2
    /\ csv_file = None /\ html_file = None

\* by_city without the station c.
Without(by_city, c) == [ x \in DOMAIN by_city \ {c} |-> by_city[x] ]

\* C3: a failed normals fetch leaves the empty mapping for that station and
\* window and does not abort the run: the run goes on until both outputs are
\* written, and every cell of the window's weighted normal is what the other
\* stations alone yield.
C3_BestEffortNormals ==
    /\ \A f \in normals_failed : ByCity(f[2])[f[1]] = EmptyMap
    /\ normals_failed # {} =>
          /\ pc # "aborted"
          /\ pc = "done" =>
                /\ csv_file # None /\ Len(Val(csv_file).rows) = DAYS
                /\ html_file # None /\ Len(Val(html_file)) = DAYS
    /\ \A f \in normals_failed : \A i \in 1..Len(NormalList(f[2])) :
          NormalList(f[2])[i] =
              WeightedNormal(Without(ByCity(f[2]), f[1]),
                             MonthDay(Val(dates_ref)[i]))

\* The run is done with both files written although a fetch of each failing
\* kind was drawn: one station failed in both windows, another in one.
C3_Witness ==
    /\ pc = "done"
    /\ {<<"Cleveland", "10y">>, <<"Cleveland", "30y">>, <<"Akron", "10y">>}
          \subseteq normals_failed
    /\ <<"Akron", "30y">> \notin normals_failed
    /\ csv_file # None /\ html_file # None
    /\ \E i \in 1..DAYS : normal_10yr[i] # None

\* A station's forecast list has a null within the first DAYS entries.
NullDays ==
    { i \in 1..DAYS : \E c \in DOMAIN city_series :
          i <= Len(city_series[c]) /\ city_series[c][i] = JNull }

\* C5: when a station's forecast value of a day is null (the fetches having
\* succeeded with full-length lists), the report is still produced and the
\* weighted-average cell of exactly the days with a null is absent.
C5_NullPropagates ==
    ( /\ Terminated
      /\ ~forecast_failed
      /\ DOMAIN city_series = CitySet
      /\ \A c \in CitySet : Len(city_series[c]) >= DAYS
      /\ NullDays # {} ) =>
        /\ pc = "done"
        /\ csv_file # None
        /\ \A i \in 1..Len(Val(csv_file).rows) :
              (Val(csv_file).rows[i].weighted_avg_f = "") <=> (i \in NullDays)

\* C6: for every forecast date and window the weighted normal cell is absent
\* exactly when no station's normals map has the date's month-day, and is a
\* number otherwise (a station whose normal is 0.0 contributes); the flat
\* table renders the cell as an empty field in exactly the same case.
C6_AbsentIffNoContributor ==
    \A window \in Windows :
        /\ \A i \in 1..Len(NormalList(window)) :
              LET S == Contributing(window, MonthDay(Val(dates_ref)[i]))
                  cell == NormalList(window)[i]
              IN  /\ (cell = None) <=> (S = {})
                  /\ S # {} => Len(cell) = 1 /\ cell[1] \in Int
        /\ csv_file # None =>
              \A i \in 1..Len(Val(csv_file).rows) :
                  LET S == Contributing(window, MonthDay(Val(dates_ref)[i]))
                      row == Val(csv_file).rows[i]
                      text == IF window = "10y" THEN row.normal_10yr_f
                              ELSE row.normal_30yr_f
                  IN  (text = "") <=> (S = {})

\* A written report with a date whose only contributing 10-year normal is
\* exactly 0.0, rendered as the number 0.0, and a date without any 30-year
\* contributor, rendered absent.
C6_Witness ==
    /\ pc = "done"
    /\ \E i \in 1..DAYS :
          LET md == MonthDay(Val(dates_ref)[i])
          IN  /\ Contributing("10y", md) = {"Columbus"}
              /\ normals_10_by_city["Columbus"][md] = 0
              /\ normal_10yr[i] = Some(0)
              /\ Val(csv_file).rows[i].normal_10yr_f # ""
    /\ \E j \in 1..DAYS :
          /\ Contributing("30y", MonthDay(Val(dates_ref)[j])) = {}
          /\ normal_30yr[j] = None
          /\ Val(csv_file).rows[j].normal_30yr_f = ""

\* C7: the change of the first row is absent (not zero), and the change of
\* every later row is the difference of the rounded weighted averages of the
\* row and of the row before it, rounded to one decimal; the flat table shows
\* the same.
C7_DayOverDay ==
    /\ dod_change # <<>> =>
          /\ Len(dod_change) = DAYS
          /\ dod_change[1] = None
          /\ \A i \in 2..DAYS :
                /\ dod_change[i] # None
                /\ dod_change[i][1] = Round1(weighted[i] - weighted[i - 1], 10)
    /\ csv_file # None =>
          \A i \in 1..Len(Val(csv_file).rows) :
              LET rows == Val(csv_file).rows
              IN  IF i = 1 THEN rows[i].day_over_day_change_f = ""
                  ELSE ParseCell(rows[i].day_over_day_change_f) =
                         Some(ParseCell(rows[i].weighted_avg_f)[1]
                              - ParseCell(rows[i - 1].weighted_avg_f)[1])

\* A written report with a rising day and a falling day.
C7_Witness ==
    /\ pc = "done"
    /\ dod_change[1] = None
    /\ \E i, j \in 2..DAYS : dod_change[i][1] > 0 /\ dod_change[j][1] < 0
    /\ Val(csv_file).rows[1].day_over_day_change_f = ""

\* C10, checked under SpecAnyLengths: a flat table on disk has exactly DAYS
\* data rows, in the order of the forecast date list, each with a weighted
\* average, and only the first without a change, whatever the lengths of the
\* lists the stations returned.
C10_OneRowPerDay ==
    csv_file # None =>
        LET rows == Val(csv_file).rows
        IN  /\ Len(rows) = DAYS
            /\ \A i \in 1..Len(rows) :
                  /\ rows[i].date = Val(dates_ref)[i]
                  /\ rows[i].weighted_avg_f # ""
                  /\ (rows[i].day_over_day_change_f = "") <=> (i = 1)

====
